---- MODULE Spec2Model ----
(***************************************************************************)
(* The authenticated API client of the property-management front end:      *)
(* the axios request interceptor (attach the bearer token), the response   *)
(* interceptor (on a 401, refresh the session and resend once), the        *)
(* AuthProvider (checkSession, the auth-state listener, signIn, signOut,   *)
(* updateUserProfile), the login form and the route guards, as written in  *)
(*   src/frontend/src/components/ui/Select.tsx  (lines 40-133, the api     *)
(*   service), src/frontend/src/context/AuthContext.tsx,                   *)
(*   src/frontend/src/components/auth/LoginForm.tsx and                    *)
(*   src/frontend/src/App.tsx.                                             *)
(*                                                                         *)
(* The hosted auth platform (supabase.auth) is the Session Store.  In the  *)
(* interceptors its getSession is a read of the stored session that        *)
(* returns a result object; its refreshSession either rotates the token,   *)
(* returns an error, or throws.  The getSession awaited by checkSession    *)
(* settles in a step of its own, with data or by throwing, and             *)
(* checkSession resumes in a later step.  Every await of the source is a   *)
(* suspension point, so every await separates two actions.                 *)
(* window.location.href = '/login' is recorded in location and navPending;  *)
(* the document load it causes is the action PageLoad of the application   *)
(* specifications.  The route guards of src/frontend/src/App.tsx are pure  *)
(* functions of the AuthContext value and the router path.                 *)
(***************************************************************************)
EXTENDS Integers, Sequences, FiniteSets, TLC

\* ---- bounds -------------------------------------------------------------
MaxReq == 2
MaxLiveReq == 1

\* ---- values -------------------------------------------------------------
Requests == 1..MaxReq

NoToken == 0
InitialToken == 1

Ok == 200
Unauthorized == 401
ServerError == 500
NetErr == 0
Statuses == {Ok, Unauthorized, ServerError, NetErr}

\* AuthContext.tsx:18, 29-37: the user state, null or the user of the session
NoUser == [id |-> 0, role |-> "null"]
SessionUser == [id |-> 1, role |-> "null"]
Roles == {"owner", "tenant"}
Users == {NoUser} \cup {[id |-> 1, role |-> ro] : ro \in Roles \cup {"null"}}

\* AuthContext.tsx:25-27, 46-47: a session is given by the id of its user;
\* NoSession is the null session
NoSession == 0
UserIds == {1, 2}
UserOf(s) == [id |-> s, role |-> "null"]

\* the events the auth platform reports to the listener
AuthEvents == {"SIGNED_IN", "SIGNED_OUT", "TOKEN_REFRESHED", "INITIAL_SESSION"}

\* App.tsx:77-124: the routes
LayoutPaths == {"/dashboard", "/properties", "/tenants", "/maintenance",
                "/payments", "/settings"}
Paths == {"/", "/login", "/signup", "/profile", "/other"} \cup LayoutPaths

NoResp == [req |-> 0, seq |-> 0, status |-> NetErr]
Pending == [kind |-> "pending", resp |-> NoResp]

VARIABLES
    session,      \* Session Store: access token of the current session, or NoToken
    okRefreshes,  \* Session Store: number of token rotations so far
    refreshing,   \* Session Store: requests whose refreshSession() call is pending
    user,         \* AuthProvider state: the user, or NoUser for null
    loading,      \* AuthProvider state: loading
    pcCheck,      \* position of the checkSession of the AuthProvider's effect
    checkData,    \* checkSession: user id of the session getSession returned, or NoSession
    sessionUid,   \* Session Store: user id of the stored session (when there is one)
    pcLogin,      \* position of LoginForm.handleLogin
    loginError,   \* LoginForm state: an error message is set
    lastSignIn,   \* history: how the last signInWithPassword call settled
    lastEvent,    \* history: the last SIGNED_IN / SIGNED_OUT event the listener handled
    signOutDone,  \* history: a signOut() has completed and no SIGNED_IN event followed
    roleSet,      \* history: updateUserProfile set a role and no sign-out followed
    path,         \* router: the current path
    navPending,   \* the browser is to load the document assigned to location
    pcSignOut,    \* position of AuthContext.signOut
    signedOut,    \* history: a signOut() has completed
    location,     \* window.location.href
    pc,           \* per request: position of the call through the wrapper
    retry,        \* per request: config._retry
    auth,         \* per request: config.headers.Authorization (token or NoToken)
    error,        \* per request: the error the response interceptor was entered with
    sends,        \* history, per request: number of dispatches
    served,       \* history, per request: statuses received, in order
    refreshCalls, \* history, per request: refreshSession() calls made on its behalf
    refreshRes,   \* history, per request: outcome of its refreshSession() call
    newToken,     \* history, per request: the token its successful refresh produced
    wire,         \* history: every dispatch, with its header and the session then
    outcome       \* per request: what the caller's promise settled with

vars == <<session, okRefreshes, refreshing, user, loading, pcCheck, path,
          navPending, pcSignOut, signedOut, location,
          checkData, sessionUid, pcLogin, loginError, lastSignIn, lastEvent,
          signOutDone, roleSet,
          pc, retry, auth, error, sends, served, refreshCalls, refreshRes,
          newToken, wire, outcome>>

storeVars == <<session, okRefreshes, refreshing>>
formVars == <<checkData, sessionUid, pcLogin, loginError, lastSignIn, lastEvent,
              signOutDone, roleSet>>
authVars == <<user, pcSignOut, signedOut, loading, pcCheck, path, formVars>>

\* ---- pure pieces of the interceptors -------------------------------------

\* Select.tsx:59-61 and 93-95: the header is written only when a token exists
AttachTokenKeepOld(header, token) ==
    IF header # NoToken THEN header ELSE token

AttachToken(header, token) ==
    IF token # NoToken THEN token ELSE header

\* Select.tsx:76: error.response?.status === 401 && !originalRequest._retry
ShouldRefreshAnyStatus401(status, retried) ==
    status = Unauthorized

ShouldRefreshAnyError(status, retried) ==
    ~retried

ShouldRefreshNoResponse(status, retried) ==
    status \in {Unauthorized, NetErr} /\ ~retried

ShouldRefresh(status, retried) ==
    status = Unauthorized /\ ~retried

\* Select.tsx:77: originalRequest._retry = true
MarkRetryForgotten(retried) == retried

MarkRetry(retried) == TRUE

\* Select.tsx:73, 77: the flag lives on the config object of the failed request
SetRetryShared(flags, r) ==
    [q \in DOMAIN flags |-> TRUE]

SetRetry(flags, r) ==
    [flags EXCEPT ![r] = MarkRetry(@)]

\* Select.tsx:83 and 98: the refresh failed when it returned an error or threw
RefreshFailedOnlyThrow(res) == res = "throw"

RefreshFailed(res) == res \in {"error", "throw"}

\* Select.tsx:71 / 106: a 2xx response resolves, everything else rejects
Settle(resp) ==
    [kind |-> IF resp.status = Ok THEN "resolved" ELSE "rejected", resp |-> resp]

\* Select.tsx:97: return api(originalRequest) -- the caller gets the resend's result
HandlerReturnFirstError(firstError, inner) ==
    [kind |-> "rejected", resp |-> firstError]

HandlerReturn(firstError, inner) == inner

\* ---- initial state ------------------------------------------------------
Init ==
    /\ session \in {NoToken, InitialToken}
    /\ okRefreshes = 0
    /\ refreshing = {}
    /\ user = IF session = NoToken THEN NoUser ELSE SessionUser
    /\ loading = FALSE
    /\ pcCheck = "done"
    /\ path = "/"
    /\ navPending = FALSE
    /\ pcSignOut = "idle"
    /\ signedOut = FALSE
    /\ location = "/app"
    /\ checkData = NoSession
    /\ sessionUid = 1
    /\ pcLogin = "idle"
    /\ loginError = FALSE
    /\ lastSignIn = "none"
    /\ lastEvent = "none"
    /\ signOutDone = FALSE
    /\ roleSet = (user.role # "null")
    /\ pc = [r \in Requests |-> "idle"]
    /\ retry = [r \in Requests |-> FALSE]
    /\ auth = [r \in Requests |-> NoToken]
    /\ error = [r \in Requests |-> NoResp]
    /\ sends = [r \in Requests |-> 0]
    /\ served = [r \in Requests |-> << >>]
    /\ refreshCalls = [r \in Requests |-> 0]
    /\ refreshRes = [r \in Requests |-> "none"]
    /\ newToken = [r \in Requests |-> NoToken]
    /\ wire = {}
    /\ outcome = [r \in Requests |-> Pending]

\* ---- the wrapper --------------------------------------------------------

SendWithPreemptiveRefresh(r) ==
    /\ pc[r] = "idle"
    /\ pc' = [pc EXCEPT ![r] = "refreshing"]
    /\ refreshing' = refreshing \cup {r}
    /\ refreshCalls' = [refreshCalls EXCEPT ![r] = @ + 1]
    /\ refreshRes' = [refreshRes EXCEPT ![r] = "pending"]
    /\ UNCHANGED <<session, okRefreshes, authVars, location, navPending, retry, auth, error,
                   sends, served, newToken, wire, outcome>>

\* Select.tsx:111-131: apiService.get/post/... hands the config to axios,
\* which enters the request interceptor (suspended at getSession, line 56)
Send(r) ==
    /\ pc[r] = "idle"
    /\ pc' = [pc EXCEPT ![r] = "reqInterceptor"]
    /\ UNCHANGED <<storeVars, authVars, location, navPending, retry, auth, error, sends,
                   served, refreshCalls, refreshRes, newToken, wire, outcome>>

\* Select.tsx:54-67: read the session, attach the token, dispatch
RequestInterceptor(r) ==
    /\ pc[r] = "reqInterceptor"
    /\ LET hdr == AttachToken(auth[r], session)
       IN /\ auth' = [auth EXCEPT ![r] = hdr]
          /\ sends' = [sends EXCEPT ![r] = @ + 1]
          /\ wire' = wire \cup {[req |-> r, seq |-> sends[r] + 1,
                                 auth |-> hdr, sess |-> session]}
    /\ pc' = [pc EXCEPT ![r] = "inflight"]
    /\ UNCHANGED <<storeVars, authVars, location, navPending, retry, error, served,
                   refreshCalls, refreshRes, newToken, outcome>>

\* Select.tsx:70-81 and 106: a response (or a network error) arrives
Respond(r, s) ==
    /\ pc[r] = "inflight"
    /\ LET resp == [req |-> r, seq |-> sends[r], status |-> s]
           inner == Settle(resp)
       IN /\ served' = [served EXCEPT ![r] = Append(@, s)]
          /\ IF s # Ok /\ ShouldRefresh(s, retry[r])
             THEN /\ retry' = SetRetry(retry, r)
                  /\ error' = [error EXCEPT ![r] = resp]
                  /\ refreshing' = refreshing \cup {r}
                  /\ refreshCalls' = [refreshCalls EXCEPT ![r] = @ + 1]
                  /\ refreshRes' = [refreshRes EXCEPT ![r] = "pending"]
                  /\ pc' = [pc EXCEPT ![r] = "refreshing"]
                  /\ UNCHANGED outcome
             ELSE /\ outcome' = [outcome EXCEPT ![r] =
                        IF sends[r] > 1 THEN HandlerReturn(error[r], inner)
                                        ELSE inner]
                  /\ pc' = [pc EXCEPT ![r] = "done"]
                  /\ UNCHANGED <<retry, error, refreshing, refreshCalls, refreshRes>>
    /\ UNCHANGED <<session, okRefreshes, authVars, location, navPending, auth, sends,
                   newToken, wire>>

\* Select.tsx:81-87 and 98-103: supabase.auth.refreshSession() settles
RefreshResolve(r, res) ==
    /\ pc[r] = "refreshing"
    /\ refreshing' = refreshing \ {r}
    /\ refreshRes' = [refreshRes EXCEPT ![r] = res]
    /\ IF RefreshFailed(res)
       THEN /\ location' = "/login"
            /\ navPending' = TRUE
            /\ outcome' = [outcome EXCEPT ![r] = Settle(error[r])]
            /\ pc' = [pc EXCEPT ![r] = "done"]
       ELSE /\ pc' = [pc EXCEPT ![r] = "getSession"]
            /\ UNCHANGED <<location, navPending, outcome>>
    /\ \/ /\ res = "ok"
          /\ session # NoToken
          /\ session' = InitialToken + okRefreshes + 1
          /\ okRefreshes' = okRefreshes + 1
          /\ newToken' = [newToken EXCEPT ![r] = InitialToken + okRefreshes + 1]
       \/ /\ res = "error"
          /\ session' \in {session, NoToken}
          /\ UNCHANGED <<okRefreshes, newToken>>
       \/ /\ res = "throw"
          /\ UNCHANGED <<session, okRefreshes, newToken>>
    /\ UNCHANGED <<authVars, retry, auth, error, sends, served, refreshCalls, wire>>

RetryAfterRefreshWritesSession(r) ==
    /\ pc[r] = "getSession"
    /\ auth' = [auth EXCEPT ![r] = AttachToken(@, session)]
    /\ session' = auth[r]
    /\ pc' = [pc EXCEPT ![r] = "reqInterceptor"]
    /\ UNCHANGED <<okRefreshes, refreshing, authVars, location, navPending, retry, error, sends,
                   served, refreshCalls, refreshRes, newToken, wire, outcome>>

\* Select.tsx:90-97: read the session again, reattach, api(originalRequest)
RetryAfterRefresh(r) ==
    /\ pc[r] = "getSession"
    /\ auth' = [auth EXCEPT ![r] = AttachToken(@, session)]
    /\ pc' = [pc EXCEPT ![r] = "reqInterceptor"]
    /\ UNCHANGED <<storeVars, authVars, location, navPending, retry, error, sends, served,
                   refreshCalls, refreshRes, newToken, wire, outcome>>

\* ---- AuthProvider -------------------------------------------------------

\* AuthContext.tsx:82-83: signOut() calls supabase.auth.signOut() and awaits it
SignOutCall ==
    /\ pcSignOut = "idle"
    /\ user # NoUser
    /\ pcSignOut' = "awaiting"
    /\ UNCHANGED <<storeVars, user, loading, pcCheck, path, navPending,
                   signedOut, location, formVars, pc, retry, auth, error,
                   sends, served, refreshCalls, refreshRes, newToken, wire, outcome>>

\* AuthContext.tsx:83-84: the platform drops the session and reports
\* SIGNED_OUT to the listener (AuthContext.tsx:58-59), then setUser(null)
SignOutDone ==
    /\ pcSignOut = "awaiting"
    /\ session' = NoToken
    /\ user' = NoUser
    /\ signedOut' = TRUE
    /\ pcSignOut' = "idle"
    /\ lastEvent' = "SIGNED_OUT"
    /\ signOutDone' = TRUE
    /\ roleSet' = FALSE
    /\ UNCHANGED <<okRefreshes, refreshing, loading, pcCheck, path, navPending,
                   location, checkData, sessionUid, pcLogin, loginError,
                   lastSignIn, pc, retry, auth, error,
                   sends, served, refreshCalls, refreshRes, newToken, wire, outcome>>

Next ==
    \/ \E r \in Requests : Send(r)
    \/ \E r \in Requests : RequestInterceptor(r)
    \/ \E r \in Requests, s \in Statuses : Respond(r, s)
    \/ \E r \in Requests, res \in {"ok", "error", "throw"} : RefreshResolve(r, res)
    \/ \E r \in Requests : RetryAfterRefresh(r)
    \/ SignOutCall
    \/ SignOutDone

Spec == Init /\ [][Next]_vars

TypeOK ==
    /\ session \in 0..(InitialToken + MaxReq)
    /\ refreshing \subseteq Requests
    /\ \A r \in Requests :
         /\ pc[r] \in {"idle", "reqInterceptor", "inflight", "refreshing",
                       "getSession", "done", "unloaded"}
         /\ sends[r] \in 0..2
         /\ refreshCalls[r] \in 0..1

\* ---- the wrapper under a responsive network ---------------------------

\* the calls whose sends and refresh calls get answered; the other calls are
\* dispatched and then hang, which must not keep an answered call from settling
LiveRequests == 1..MaxLiveReq

NextResponsive ==
    \/ \E r \in Requests : Send(r)
    \/ \E r \in Requests : RequestInterceptor(r)
    \/ \E r \in LiveRequests, s \in Statuses : Respond(r, s)
    \/ \E r \in LiveRequests, res \in {"ok", "error", "throw"} : RefreshResolve(r, res)
    \/ \E r \in LiveRequests : RetryAfterRefresh(r)
    \/ SignOutCall
    \/ SignOutDone

\* every continuation of an awaited promise runs, every dispatched send and
\* every refresh call eventually gets a response or an error
Responsive ==
    \A r \in LiveRequests :
        /\ WF_vars(RequestInterceptor(r))
        /\ WF_vars(\E s \in Statuses : Respond(r, s))
        /\ WF_vars(\E res \in {"ok", "error", "throw"} : RefreshResolve(r, res))
        /\ WF_vars(RetryAfterRefresh(r))

SpecResponsive == Init /\ [][NextResponsive]_vars /\ Responsive

\* ---- the route guards (App.tsx) ------------------------------------------

Page(n) == [kind |-> "page", name |-> n]
Spinner == [kind |-> "spinner", name |-> ""]
NavigateTo(p) == [kind |-> "navigate", name |-> p]

\* App.tsx:18-39
RequireAuthIgnoresRole(u, l, children) ==
    IF l THEN Spinner
    ELSE IF u = NoUser THEN NavigateTo("/login")
    ELSE children

RequireAuth(u, l, children) ==
    IF l THEN Spinner
    ELSE IF u = NoUser THEN NavigateTo("/login")
    ELSE IF u.role = "null" THEN NavigateTo("/profile")
    ELSE children

\* App.tsx:41-60
RequireNoAuthAlwaysProfile(u, l, children) ==
    IF l THEN Spinner
    ELSE IF u # NoUser THEN NavigateTo("/profile")
    ELSE children

RequireNoAuth(u, l, children) ==
    IF l THEN Spinner
    ELSE IF u # NoUser
         THEN IF u.role = "null" THEN NavigateTo("/profile")
                                 ELSE NavigateTo("/dashboard")
    ELSE children

\* App.tsx:73-127: the element the router shows for a path
AppRoutes(p, u, l) ==
    CASE p = "/" -> Page("LandingPage")
      [] p = "/login" -> RequireNoAuth(u, l, Page("LoginPage"))
      [] p = "/signup" -> RequireNoAuth(u, l, Page("SignupPage"))
      [] p = "/profile" -> RequireAuth(u, l, Page("ProfilePage"))
      [] p \in LayoutPaths -> RequireAuth(u, l, Page(p))
      [] OTHER -> NavigateTo("/dashboard")

\* what the browser shows in the current state
Screen == AppRoutes(path, user, loading)

\* the <Link>/<NavLink> targets of a page: Navbar.tsx:33-61, LoginPage.tsx:10,
\* LoginForm.tsx:164, SignupPage.tsx:10, Sidebar.tsx:19-40
LinksOn(el) ==
    IF el.kind # "page" THEN {}
    ELSE CASE el.name = "LandingPage" -> {"/", "/login", "/signup"}
           [] el.name = "LoginPage" -> {"/", "/signup"}
           [] el.name = "SignupPage" -> {"/"}
           [] el.name \in LayoutPaths -> LayoutPaths
           [] OTHER -> {}

wrapperVars == <<pc, retry, auth, error, sends, served, refreshCalls, refreshRes,
                 newToken, wire, outcome>>

\* ---- the application shell ----------------------------------------------

\* AuthContext.tsx:25: the getSession() awaited by checkSession settles, with
\* the stored session (or null) in data, or by throwing; nothing catches
GetSessionSettle(res) ==
    /\ pcCheck = "awaiting"
    /\ IF res = "throw"
       THEN /\ pcCheck' = "failed"
            /\ checkData' = checkData
       ELSE /\ pcCheck' = "resuming"
            /\ checkData' = IF session # NoToken THEN sessionUid ELSE NoSession
    /\ UNCHANGED <<storeVars, user, loading, path, navPending, pcSignOut, signedOut,
                   location, sessionUid, pcLogin, loginError, lastSignIn, lastEvent,
                   signOutDone, roleSet, wrapperVars>>

\* AuthContext.tsx:27-40: checkSession resumes with the data it was given
CheckSessionResume ==
    /\ pcCheck = "resuming"
    /\ user' = IF checkData # NoSession THEN UserOf(checkData) ELSE user
    /\ loading' = FALSE
    /\ pcCheck' = "done"
    /\ UNCHANGED <<storeVars, path, navPending, pcSignOut, signedOut, location,
                   formVars, wrapperVars>>

\* App.tsx:30, 35, 54, 56, 124: a rendered <Navigate> changes the path
FollowNavigate ==
    /\ Screen.kind = "navigate"
    /\ path' = Screen.name
    /\ UNCHANGED <<storeVars, user, loading, pcCheck, navPending, pcSignOut,
                   signedOut, location, formVars, wrapperVars>>

\* the user follows a link of the page shown
FollowLink(p) ==
    /\ p \in LinksOn(Screen)
    /\ path' = p
    /\ UNCHANGED <<storeVars, user, loading, pcCheck, navPending, pcSignOut,
                   signedOut, location, formVars, wrapperVars>>

\* Header.tsx:91-111 and AuthContext.tsx:87-93: the profile form is submitted
ProfileSubmit(ro) ==
    /\ Screen = Page("ProfilePage")
    /\ user' = IF user = NoUser THEN user ELSE [user EXCEPT !.role = ro]
    /\ path' = "/dashboard"
    /\ roleSet' = (user # NoUser)
    /\ UNCHANGED <<storeVars, loading, pcCheck, navPending, pcSignOut, signedOut,
                   location, checkData, sessionUid, pcLogin, loginError,
                   lastSignIn, lastEvent, signOutDone, wrapperVars>>

\* Sidebar.tsx:70, SettingsPage.tsx:43: the sign-out button of the layout
SignOutClick ==
    /\ Screen.kind = "page"
    /\ Screen.name \in LayoutPaths
    /\ SignOutCall

\* Select.tsx:85, 101: the browser loads the document assigned to
\* window.location.href; the old document, its calls and its state are gone,
\* the AuthProvider of the new one mounts (AuthContext.tsx:18-24, 43)
PageLoad ==
    /\ navPending
    /\ navPending' = FALSE
    /\ path' = location
    /\ user' = NoUser
    /\ loading' = TRUE
    /\ pcCheck' = "awaiting"
    /\ checkData' = NoSession
    /\ pcLogin' = "idle"
    /\ loginError' = FALSE
    /\ roleSet' = FALSE
    /\ pcSignOut' = "idle"
    /\ refreshing' = {}
    /\ pc' = [r \in Requests |->
                IF pc[r] \in {"idle", "done"} THEN pc[r] ELSE "unloaded"]
    /\ UNCHANGED <<session, okRefreshes, signedOut, location, sessionUid,
                   lastSignIn, lastEvent, signOutDone, retry, auth, error,
                   sends, served, refreshCalls, refreshRes, newToken, wire, outcome>>

\* a document of the application is opened at some path, the AuthProvider
\* has mounted and its checkSession awaits getSession
InitApp ==
    /\ session \in {NoToken, InitialToken}
    /\ okRefreshes = 0
    /\ refreshing = {}
    /\ user = NoUser
    /\ loading = TRUE
    /\ pcCheck = "awaiting"
    /\ path \in Paths
    /\ navPending = FALSE
    /\ pcSignOut = "idle"
    /\ signedOut = FALSE
    /\ location = "/app"
    /\ checkData = NoSession
    /\ sessionUid = 1
    /\ pcLogin = "idle"
    /\ loginError = FALSE
    /\ lastSignIn = "none"
    /\ lastEvent = "none"
    /\ signOutDone = FALSE
    /\ roleSet = (user.role # "null")
    /\ pc = [r \in Requests |-> "idle"]
    /\ retry = [r \in Requests |-> FALSE]
    /\ auth = [r \in Requests |-> NoToken]
    /\ error = [r \in Requests |-> NoResp]
    /\ sends = [r \in Requests |-> 0]
    /\ served = [r \in Requests |-> << >>]
    /\ refreshCalls = [r \in Requests |-> 0]
    /\ refreshRes = [r \in Requests |-> "none"]
    /\ newToken = [r \in Requests |-> NoToken]
    /\ wire = {}
    /\ outcome = [r \in Requests |-> Pending]

NextApp ==
    \/ \E r \in LiveRequests : Send(r)
    \/ \E r \in LiveRequests : RequestInterceptor(r)
    \/ \E r \in LiveRequests, s \in Statuses : Respond(r, s)
    \/ \E r \in LiveRequests, res \in {"ok", "error", "throw"} : RefreshResolve(r, res)
    \/ \E r \in LiveRequests : RetryAfterRefresh(r)
    \/ PageLoad
    \/ \E res \in {"data", "throw"} : GetSessionSettle(res)
    \/ CheckSessionResume
    \/ FollowNavigate
    \/ \E p \in Paths : FollowLink(p)

\* the event loop runs every continuation, the network answers, the browser
\* loads the assigned document and the router follows a rendered <Navigate>;
\* nothing obliges the user to click
FairApp ==
    /\ Responsive
    /\ WF_vars(PageLoad)
    /\ WF_vars(\E res \in {"data", "throw"} : GetSessionSettle(res))
    /\ WF_vars(CheckSessionResume)
    /\ WF_vars(FollowNavigate)

SpecApp == InitApp /\ [][NextApp]_vars /\ FairApp

\* the guards against every value the AuthContext can provide: the shell
\* starts at any path with any user the User type admits
InitShell ==
    /\ session \in {NoToken, InitialToken}
    /\ okRefreshes = 0
    /\ refreshing = {}
    /\ loading \in BOOLEAN
    /\ user \in IF session = NoToken THEN {NoUser}
                ELSE IF loading THEN {NoUser, SessionUser} ELSE Users
    /\ pcCheck = IF loading THEN "awaiting" ELSE "done"
    /\ path \in Paths
    /\ navPending = FALSE
    /\ pcSignOut = "idle"
    /\ signedOut = FALSE
    /\ location = "/app"
    /\ checkData = NoSession
    /\ sessionUid = 1
    /\ pcLogin = "idle"
    /\ loginError = FALSE
    /\ lastSignIn = "none"
    /\ lastEvent = "none"
    /\ signOutDone = FALSE
    /\ roleSet = (user.role # "null")
    /\ pc = [r \in Requests |-> "idle"]
    /\ retry = [r \in Requests |-> FALSE]
    /\ auth = [r \in Requests |-> NoToken]
    /\ error = [r \in Requests |-> NoResp]
    /\ sends = [r \in Requests |-> 0]
    /\ served = [r \in Requests |-> << >>]
    /\ refreshCalls = [r \in Requests |-> 0]
    /\ refreshRes = [r \in Requests |-> "none"]
    /\ newToken = [r \in Requests |-> NoToken]
    /\ wire = {}
    /\ outcome = [r \in Requests |-> Pending]

NextShell ==
    \/ \E res \in {"data", "throw"} : GetSessionSettle(res)
    \/ CheckSessionResume
    \/ FollowNavigate
    \/ \E p \in Paths : FollowLink(p)
    \/ \E ro \in Roles : ProfileSubmit(ro)
    \/ SignOutClick
    \/ SignOutDone

SpecShell == InitShell /\ [][NextShell]_vars

\* ---- the AuthProvider with the platform's events ------------------------

\* AuthContext.tsx:83-84 when supabase.auth.signOut() resolves with an error:
\* the stored session stays, no event is reported, setUser(null) runs
SignOutFailedKeepsUser ==
    /\ pcSignOut = "awaiting"
    /\ pcSignOut' = "idle"
    /\ signedOut' = TRUE
    /\ signOutDone' = TRUE
    /\ roleSet' = FALSE
    /\ UNCHANGED <<storeVars, user, loading, pcCheck, path, navPending, location,
                   checkData, sessionUid, pcLogin, loginError, lastSignIn,
                   lastEvent, wrapperVars>>

SignOutFailed ==
    /\ pcSignOut = "awaiting"
    /\ user' = NoUser
    /\ pcSignOut' = "idle"
    /\ signedOut' = TRUE
    /\ signOutDone' = TRUE
    /\ roleSet' = FALSE
    /\ UNCHANGED <<storeVars, loading, pcCheck, path, navPending, location,
                   checkData, sessionUid, pcLogin, loginError, lastSignIn,
                   lastEvent, wrapperVars>>

\* AuthContext.tsx:83 when supabase.auth.signOut() throws: signOut() rejects
\* before line 84
SignOutThrows ==
    /\ pcSignOut = "awaiting"
    /\ pcSignOut' = "idle"
    /\ UNCHANGED <<storeVars, user, loading, pcCheck, path, navPending, signedOut,
                   location, formVars, wrapperVars>>

\* AuthContext.tsx:46-61: the user state after the listener has handled an
\* event reported with session s
AuthStateChangeAnySession(event, s, u) ==
    IF s # NoSession THEN UserOf(s)
    ELSE IF event = "SIGNED_OUT" THEN NoUser
    ELSE u

AuthStateChange(event, s, u) ==
    IF event = "SIGNED_IN" /\ s # NoSession THEN UserOf(s)
    ELSE IF event = "SIGNED_OUT" THEN NoUser
    ELSE u

\* what the platform reports: SIGNED_OUT comes without a session,
\* TOKEN_REFRESHED with the stored one, INITIAL_SESSION with the stored one
\* or null, SIGNED_IN with the session of the account that signed in (the
\* type of the callback also admits null)
EventPossible(event, s) ==
    CASE event = "SIGNED_OUT" -> s = NoSession
      [] event = "TOKEN_REFRESHED" -> session # NoToken /\ s = sessionUid
      [] event = "INITIAL_SESSION" ->
             s = IF session # NoToken THEN sessionUid ELSE NoSession
      [] OTHER -> TRUE

\* AuthContext.tsx:46-61: the platform changes the Session Store (this tab or
\* another one) and the listener handles the event it reports
OnAuthStateChange(event, s) ==
    /\ EventPossible(event, s)
    /\ user' = AuthStateChange(event, s, user)
    /\ session' = CASE event = "SIGNED_OUT" -> NoToken
                     [] event = "SIGNED_IN" /\ s # NoSession /\ session = NoToken ->
                            InitialToken
                     [] OTHER -> session
    /\ sessionUid' = IF event = "SIGNED_IN" /\ s # NoSession THEN s ELSE sessionUid
    /\ lastEvent' = IF event \in {"SIGNED_IN", "SIGNED_OUT"} THEN event ELSE lastEvent
    /\ signOutDone' = IF event = "SIGNED_IN" THEN FALSE ELSE signOutDone
    /\ roleSet' = IF event = "SIGNED_OUT" THEN FALSE ELSE roleSet
    /\ UNCHANGED <<okRefreshes, refreshing, loading, pcCheck, path, navPending,
                   pcSignOut, signedOut, location, checkData, pcLogin, loginError,
                   lastSignIn, wrapperVars>>

\* AuthContext.tsx:68-70: signIn awaits signInWithPassword and drops what it
\* resolves with, so signIn rejects only when the call throws
SignIn(res) == IF res = "throw" THEN "rejected" ELSE "resolved"

\* LoginForm.tsx:16-22: the login form is submitted
HandleLogin ==
    /\ Screen = Page("LoginPage")
    /\ pcLogin = "idle"
    /\ pcLogin' = "awaiting"
    /\ loginError' = FALSE
    /\ UNCHANGED <<storeVars, user, loading, pcCheck, path, navPending, pcSignOut,
                   signedOut, location, checkData, sessionUid, lastSignIn,
                   lastEvent, signOutDone, roleSet, wrapperVars>>

\* LoginForm.tsx:22-29: signInWithPassword settles ("ok": the session of
\* account uid is stored and SIGNED_IN is reported to the listener before the
\* call resolves; "invalid": the platform rejects the credentials and the
\* call resolves with { error }; "throw": the call throws) and handleLogin
\* resumes
HandleLoginResume(res, uid) ==
    /\ pcLogin = "awaiting"
    /\ pcLogin' = "idle"
    /\ lastSignIn' = res
    /\ IF res = "ok"
       THEN /\ session' = IF session = NoToken THEN InitialToken ELSE session
            /\ sessionUid' = uid
            /\ user' = AuthStateChange("SIGNED_IN", uid, user)
            /\ lastEvent' = "SIGNED_IN"
            /\ signOutDone' = FALSE
       ELSE UNCHANGED <<session, sessionUid, user, lastEvent, signOutDone>>
    /\ path' = IF SignIn(res) = "resolved" THEN "/profile" ELSE path
    /\ loginError' = (SignIn(res) = "rejected")
    /\ UNCHANGED <<okRefreshes, refreshing, loading, pcCheck, navPending, pcSignOut,
                   signedOut, location, checkData, roleSet, wrapperVars>>

NextAuth ==
    \/ \E res \in {"data", "throw"} : GetSessionSettle(res)
    \/ CheckSessionResume
    \/ FollowNavigate
    \/ \E p \in Paths : FollowLink(p)
    \/ \E ro \in Roles : ProfileSubmit(ro)
    \/ SignOutClick
    \/ SignOutDone
    \/ SignOutFailed
    \/ SignOutThrows
    \/ \E event \in AuthEvents, s \in UserIds \cup {NoSession} :
           OnAuthStateChange(event, s)
    \/ HandleLogin
    \/ \E res \in {"ok", "invalid", "throw"}, uid \in UserIds :
           HandleLoginResume(res, uid)

\* the AuthProvider, the forms and the guards, started like SpecShell
SpecAuth == InitShell /\ [][NextAuth]_vars

\* ---- the conditions the caller can observe ----------------------------

\* the wrapper redirected to /login while handling r (Select.tsx:85, 101)
SessionExpired(r) == refreshRes[r] \in {"error", "throw"}

\* r was rejected with the 401 of its latest send and the wrapper did nothing else
AuthenticationFailed(r) ==
    /\ outcome[r] = [kind |-> "rejected",
                     resp |-> [req |-> r, seq |-> sends[r], status |-> Unauthorized]]
    /\ ~SessionExpired(r)

FirstResponseUnauthorized(r) ==
    Len(served[r]) >= 1 /\ served[r][1] = Unauthorized

C2_AtMostOneRefreshInFlight ==
    Cardinality(refreshing) <= 1

\* ---- C3 -----------------------------------------------------------------
\* C3: a request that receives 401 on its resend (retried flag already true)
\* causes no further refresh call, is not sent again, and is rejected to the
\* caller with that 401 (AuthenticationFailed).
C3_RetriedUnauthorizedPropagates ==
    \A r \in Requests :
        (Len(served[r]) = 2 /\ served[r][2] = Unauthorized) =>
            /\ retry[r]
            /\ refreshCalls[r] = 1
            /\ r \notin refreshing
            /\ sends[r] = 2
            /\ pc[r] = "done"
            /\ AuthenticationFailed(r)

C3_Witness ==
    \E r \in Requests :
        /\ Len(served[r]) = 2
        /\ served[r][2] = Unauthorized
        /\ pc[r] = "done"

\* ---- C4 -----------------------------------------------------------------
\* C4: when the refresh call returns an error or throws, the request that
\* waited on it is never resent and its caller gets a rejection.
C4_FailedRefreshNoResend ==
    \A r \in Requests :
        refreshRes[r] \in {"error", "throw"} =>
            /\ sends[r] = 1
            /\ pc[r] = "done"
            /\ outcome[r].kind = "rejected"
            /\ \A d \in wire : d.req = r => d.seq = 1

C4_Witness ==
    /\ \E r \in Requests : refreshRes[r] = "error" /\ pc[r] = "done"
    /\ \E r \in Requests : refreshRes[r] = "throw" /\ pc[r] = "done"

\* ---- C5 -----------------------------------------------------------------
\* C5: after a failed refresh the caller is not handed the original 401
\* response as the generic HTTP error; it gets a distinct condition.
C5_FailedRefreshReclassified ==
    \A r \in Requests :
        (SessionExpired(r) /\ pc[r] = "done") =>
            ~(outcome[r].kind = "rejected" /\ outcome[r].resp = error[r]
              /\ outcome[r].resp.status = Unauthorized)

\* ---- C6 -----------------------------------------------------------------
\* C6: every resend carries the token T2 that the request's successful
\* refresh produced, never an older one.
C6_ResendCarriesNewToken ==
    \A d \in wire :
        d.seq = 2 => (newToken[d.req] # NoToken /\ d.auth = newToken[d.req])

\* ---- C7 -----------------------------------------------------------------
\* C7: a request that was resent settles with exactly the outcome of its own
\* resend: resolved with that response on 2xx, rejected with it otherwise.
C7_ResendOutcomeDelivered ==
    \A r \in Requests :
        (pc[r] = "done" /\ sends[r] = 2) =>
            outcome[r] = Settle([req |-> r, seq |-> 2, status |-> served[r][2]])

C7_Witness ==
    \E r1, r2 \in Requests :
        /\ r1 # r2
        /\ pc[r1] = "done" /\ sends[r1] = 2 /\ outcome[r1].kind = "resolved"
        /\ pc[r2] = "done" /\ sends[r2] = 2 /\ outcome[r2].kind = "rejected"

\* ---- C8 -----------------------------------------------------------------
\* C8: when the refresh reported no error but the Session Store holds no
\* access token at the read that follows, the request is not sent again and
\* the wrapper redirects to /login (SessionExpired).
C8_NoTokenAfterRefreshExpires ==
    [][\A r \in Requests :
          (pc[r] = "getSession" /\ session = NoToken /\ pc'[r] # "getSession") =>
              (pc'[r] = "done" /\ location' = "/login")]_vars

C10_NoRefreshAfterSignOut ==
    [][\A r \in Requests :
          (/\ signedOut
           /\ pc[r] = "inflight"
           /\ Len(served'[r]) = Len(served[r]) + 1
           /\ served'[r][Len(served'[r])] = Unauthorized) =>
              /\ refreshCalls'[r] = refreshCalls[r]
              /\ refreshing' = refreshing
              /\ pc'[r] = "done"
              /\ location' = location]_vars

\* ---- helpers for the step claims --------------------------------------

\* in this step the response interceptor of r ran on a response of status s
Received(r, s) ==
    /\ pc[r] = "inflight"
    /\ served'[r] = Append(served[r], s)

RECURSIVE SumUpTo(_, _)
SumUpTo(f, n) == IF n = 0 THEN 0 ELSE f[n] + SumUpTo(f, n - 1)

\* refreshSession() calls issued by the wrapper so far
RefreshTotal == SumUpTo(refreshCalls, MaxReq)

\* 401 responses seen so far on a request whose retried flag was false
UnretriedUnauthorizedSeen ==
    Cardinality({r \in Requests : FirstResponseUnauthorized(r)})

\* ---- C11 ----------------------------------------------------------------
\* C11: a response whose status is not 401 (2xx or an error status) settles
\* the call with that very response and changes nothing else: no refresh
\* call, no resend, no change of any retried flag, no redirect.
C11_NonUnauthorizedPassThrough ==
    [][\A r \in Requests : \A s \in {Ok, ServerError} :
          Received(r, s) =>
              /\ pc'[r] = "done"
              /\ outcome'[r] = Settle([req |-> r, seq |-> sends[r], status |-> s])
              /\ refreshCalls' = refreshCalls
              /\ refreshing' = refreshing
              /\ sends' = sends
              /\ wire' = wire
              /\ retry' = retry
              /\ location' = location]_vars

C11_Witness ==
    /\ \E r \in Requests : pc[r] = "done" /\ served[r] = <<ServerError>>
    /\ \E r \in Requests : pc[r] = "done" /\ served[r] = <<Unauthorized, Ok>>

\* ---- C12 ----------------------------------------------------------------
\* C12: a network failure (no response) rejects the call with that failure
\* and changes nothing else: no refresh call, no resend, no redirect.
C12_NetworkErrorPassThrough ==
    [][\A r \in Requests :
          Received(r, NetErr) =>
              /\ pc'[r] = "done"
              /\ outcome'[r] = [kind |-> "rejected",
                                resp |-> [req |-> r, seq |-> sends[r], status |-> NetErr]]
              /\ refreshCalls' = refreshCalls
              /\ refreshing' = refreshing
              /\ sends' = sends
              /\ wire' = wire
              /\ location' = location]_vars

C12_Witness ==
    \E r \in Requests :
        /\ pc[r] = "done"
        /\ served[r] = <<NetErr>>
        /\ refreshCalls[r] = 0
        /\ outcome[r].kind = "rejected"

\* ---- C15 ----------------------------------------------------------------
\* C15: no resend is dispatched while the request's refresh is pending, and a
\* request that gets 401 while a refresh is already pending attaches to it:
\* it starts no refresh call of its own.
C15_AttachToPendingRefresh ==
    [][/\ \A d \in wire' \ wire : d.seq = 2 => refreshRes[d.req] = "ok"
       /\ \A r \in Requests :
            (Received(r, Unauthorized) /\ refreshing # {}) =>
                (refreshing' = refreshing /\ refreshCalls' = refreshCalls)]_vars

\* ---- C16 ----------------------------------------------------------------
\* C16: refresh calls are purely reactive: a request has a refresh call only
\* after its first response was 401, and the number of refresh calls never
\* exceeds the number of such 401 responses seen so far.
C16_RefreshOnlyAfterUnauthorized ==
    /\ \A r \in Requests : refreshCalls[r] > 0 => FirstResponseUnauthorized(r)
    /\ \A r \in Requests : sends[r] = 0 => refreshCalls[r] = 0
    /\ RefreshTotal <= UnretriedUnauthorizedSeen

C16_Witness ==
    /\ RefreshTotal >= 2
    /\ RefreshTotal = UnretriedUnauthorizedSeen
    /\ \E r \in Requests : Len(served[r]) = 2

\* ---- C17 ----------------------------------------------------------------
\* C17: a step that changes a request's retried flag changes it from false
\* to true and leaves the flag of every other request as it was.
C17_RetriedFlagPerRequest ==
    [][\A r \in Requests :
          retry'[r] # retry[r] =>
              /\ ~retry[r] /\ retry'[r]
              /\ \A q \in Requests \ {r} : retry'[q] = retry[q]]_vars

C17_Witness ==
    \E r, q \in Requests :
        /\ r # q
        /\ retry[r] /\ sends[r] = 2
        /\ ~retry[q] /\ pc[q] = "inflight"

\* ---- C18 ----------------------------------------------------------------
\* C18: no interceptor step writes the session: when a step of the wrapper
\* changes the stored session, that step is the settling of a refresh call.
C18_SessionWrittenOnlyByRefresh ==
    [][\A r \in Requests :
          (pc'[r] # pc[r] /\ session' # session) => pc[r] = "refreshing"]_vars

C18_Witness ==
    \E r \in Requests :
        /\ newToken[r] # NoToken
        /\ session = newToken[r]
        /\ sends[r] = 2
        /\ pc[r] = "done"

\* ---- C14 ----------------------------------------------------------------
\* C14: under a responsive network every call made through the wrapper
\* settles, after at most two dispatches of the request and at most one
\* refresh call on its behalf, whatever the server answers.
C14_CallTerminates ==
    /\ \A r \in LiveRequests : (pc[r] # "idle") ~> (pc[r] = "done")
    /\ [](\A r \in Requests : sends[r] <= 2 /\ refreshCalls[r] <= 1)

C14_Witness ==
    \E r \in Requests :
        /\ pc[r] = "done"
        /\ served[r] = <<Unauthorized, Unauthorized>>
        /\ sends[r] = 2
        /\ refreshCalls[r] = 1

\* ---- C13 ----------------------------------------------------------------
\* C13: once a refresh call has failed and the wrapper has assigned /login,
\* the application eventually is in the state where the user state is
\* cleared and the sign-in page is shown.
C13_SignInShownAfterFailedRefresh ==
    (navPending /\ location = "/login" /\ \E r \in Requests : RefreshFailed(refreshRes[r]))
        ~> (user = NoUser /\ Screen = Page("LoginPage"))

\* ---- C19 ----------------------------------------------------------------
\* C19: a signed-in user without a role who is at /profile eventually sees
\* the profile page.
C19_ProfileSetupShown ==
    (~loading /\ user # NoUser /\ user.role = "null" /\ path = "/profile")
        ~> (Screen = Page("ProfilePage"))

\* ---- C20 ----------------------------------------------------------------
\* C20: at a path of the main layout the page is shown only when loading is
\* false and the user has a role; otherwise the guard shows the spinner
\* (loading), navigates to /login (no user) or to /profile (no role).
C20_LayoutPagesGuarded ==
    /\ (Screen.kind = "page" /\ Screen.name \in LayoutPaths) =>
           (~loading /\ user # NoUser /\ user.role # "null")
    /\ path \in LayoutPaths =>
           /\ loading => Screen = Spinner
           /\ (~loading /\ user = NoUser) => Screen = NavigateTo("/login")
           /\ (~loading /\ user # NoUser /\ user.role = "null") =>
                  Screen = NavigateTo("/profile")
           /\ (~loading /\ user # NoUser /\ user.role # "null") =>
                  Screen = Page(path)

C20_Witness ==
    /\ path = "/dashboard"
    /\ Screen = Page("/dashboard")
    /\ user.role = "owner"
    /\ ~loading

\* ---- C21 ----------------------------------------------------------------
\* C21: the login and signup pages are shown only when loading is false and
\* there is no user; at /login and /signup a signed-in user is sent to
\* /profile when the role is null and to /dashboard otherwise.
C21_AuthPagesOnlyForGuests ==
    /\ Screen \in {Page("LoginPage"), Page("SignupPage")} =>
           (~loading /\ user = NoUser)
    /\ (path \in {"/login", "/signup"} /\ ~loading /\ user # NoUser) =>
           Screen = NavigateTo(IF user.role = "null" THEN "/profile"
                                                     ELSE "/dashboard")

C21_Witness ==
    /\ path = "/login"
    /\ ~loading
    /\ user # NoUser
    /\ user.role # "null"
    /\ Screen = NavigateTo("/dashboard")

\* ---- C22 ----------------------------------------------------------------
\* C22: when handleLogin resumes after a sign-in attempt that did not
\* succeed, an error message is set and the path does not change; it
\* navigates to /profile only after a successful sign-in.
C22_NavigateOnlyAfterSuccessfulSignIn ==
    [][(pcLogin = "awaiting" /\ pcLogin' = "idle") =>
          IF lastSignIn' = "ok" THEN path' = "/profile"
                                ELSE loginError' /\ path' = path]_vars

\* ---- C23 ----------------------------------------------------------------
\* C23: once a signOut() has completed, whether the platform's sign-out call
\* resolved with or without an error, and until a SIGNED_IN event is
\* handled, user is null and every route behind RequireAuth navigates to
\* /login.
C23_SignedOutUntilSignedIn ==
    signOutDone =>
        /\ user = NoUser
        /\ \A p \in LayoutPaths \cup {"/profile"} :
               AppRoutes(p, user, loading) = NavigateTo("/login")

C23_Witness ==
    /\ signOutDone
    /\ session # NoToken
    /\ lastEvent # "SIGNED_OUT"
    /\ path \in LayoutPaths
    /\ Screen = NavigateTo("/login")

\* ---- C24 ----------------------------------------------------------------
\* C24: a step of the auth-state listener leaves loading unchanged and
\* changes user only in two cases: SIGNED_IN with a session sets user to the
\* user of that session, SIGNED_OUT sets it to null; any other event, and
\* SIGNED_IN without a session, leaves user unchanged.
C24_ListenerFrame ==
    [][\A event \in AuthEvents, s \in UserIds \cup {NoSession} :
          OnAuthStateChange(event, s) =>
              /\ loading' = loading
              /\ user' = CASE event = "SIGNED_IN" /\ s # NoSession ->
                                 [id |-> s, role |-> "null"]
                            [] event = "SIGNED_OUT" -> NoUser
                            [] OTHER -> user]_vars

C24_Witness ==
    /\ lastEvent = "SIGNED_IN"
    /\ lastSignIn = "none"
    /\ user = [id |-> 2, role |-> "null"]
    /\ sessionUid = 2

C26_LoadingEventuallyFalse ==
    loading ~> ~loading

\* ---- C27 ----------------------------------------------------------------
\* C27: while the last SIGNED_IN / SIGNED_OUT event handled is SIGNED_OUT,
\* user is null, however the steps of checkSession interleave with events.
C27_NoUserAfterSignedOut ==
    lastEvent = "SIGNED_OUT" => user = NoUser
====
